---- MODULE Spec2Model ----
(***************************************************************************)
(* The prompt-enhancement services of the repository as one state machine. *)
(*                                                                         *)
(*   src/Backend/app.py   PromptEnhancer (detect_category,                 *)
(*                        get_enhancement_template, calculate_metrics,     *)
(*                        enhance, _fallback_enhancement), GeminiAPI and   *)
(*                        the route POST /api/v1/enhance                   *)
(*   src/Backend/main.py  PromptEnhancer (detect_category, call_gemini_api,*)
(*                        calculate_metrics, _fallback_enhancement,        *)
(*                        enhance) and the route POST /api/enhance         *)
(*   src/main.py          the route POST /generate                         *)
(*                                                                         *)
(* Text is a TLC string; the Python str methods the code uses are defined  *)
(* below character by character.  The prefix App_ names src/Backend/app.py,*)
(* Main_ names src/Backend/main.py and Gen_ names src/main.py.             *)
(***************************************************************************)
EXTENDS Integers, Sequences, FiniteSets, TLC

(***************************************************************************)
(* Bounds of the model.                                                    *)
(***************************************************************************)
\* Prompts are built of at most MaxWords words of Vocabulary.
MaxWords == 2

(***************************************************************************)
(* Python str primitives.                                                  *)
(***************************************************************************)
Char(s, i) == SubSeq(s, i, i)

ascii_uppercase == "ABCDEFGHIJKLMNOPQRSTUVWXYZ"

ascii_lowercase == "abcdefghijklmnopqrstuvwxyz"

\* str.split() with no argument splits on runs of these.
whitespace == {" ", "\t", "\n", "\r", "\f"}

LowerOf ==
    [c \in {Char(ascii_uppercase, i) : i \in 1..26} |->
        Char(ascii_lowercase, CHOOSE i \in 1..26 : Char(ascii_uppercase, i) = c)]

UpperOf ==
    [c \in {Char(ascii_lowercase, i) : i \in 1..26} |->
        Char(ascii_uppercase, CHOOSE i \in 1..26 : Char(ascii_lowercase, i) = c)]

IsCased(c) == c \in DOMAIN LowerOf \/ c \in DOMAIN UpperOf

LowerChar(c) == IF c \in DOMAIN LowerOf THEN LowerOf[c] ELSE c

UpperChar(c) == IF c \in DOMAIN UpperOf THEN UpperOf[c] ELSE c

\* str.lower(): every cased character mapped to lower case, the rest kept.
RECURSIVE lower(_)
lower(s) ==
    IF Len(s) = 0 THEN ""
    ELSE IF Len(s) = 1 THEN LowerChar(s)
    ELSE LET h == Len(s) \div 2
         IN  lower(SubSeq(s, 1, h)) \o lower(SubSeq(s, h + 1, Len(s)))

\* str.replace(old, new) for a one-character old.
RECURSIVE replace(_, _, _)
replace(s, old, new) ==
    IF Len(s) = 0 THEN ""
    ELSE IF Len(s) = 1 THEN (IF s = old THEN new ELSE s)
    ELSE LET h == Len(s) \div 2
         IN  replace(SubSeq(s, 1, h), old, new)
                 \o replace(SubSeq(s, h + 1, Len(s)), old, new)

\* str.title(): a cased character is upper-cased when it follows an uncased
\* character (or starts the string) and lower-cased when it follows a cased one.
RECURSIVE title_range(_, _, _)
title_range(s, lo, hi) ==
    IF lo > hi THEN ""
    ELSE IF lo = hi
         THEN (IF lo > 1 /\ IsCased(Char(s, lo - 1))
               THEN LowerChar(Char(s, lo))
               ELSE UpperChar(Char(s, lo)))
         ELSE LET mid == (lo + hi) \div 2
              IN  title_range(s, lo, mid) \o title_range(s, mid + 1, hi)

title(s) == title_range(s, 1, Len(s))

\* str.strip(): leading and trailing whitespace removed.
strip(s) ==
    LET n     == Len(s)
        IsWs(i) == Char(s, i) \in whitespace
    IN  IF \A i \in 1..n : IsWs(i) THEN ""
        ELSE SubSeq(s,
                    CHOOSE i \in 1..n : ~IsWs(i) /\ \A j \in 1..(i - 1) : IsWs(j),
                    CHOOSE i \in 1..n : ~IsWs(i) /\ \A j \in (i + 1)..n : IsWs(j))

\* len(s.split()): the number of maximal runs of non-whitespace characters.
split_len(s) ==
    Cardinality({i \in 1..Len(s) :
                    /\ Char(s, i) \notin whitespace
                    /\ (i = 1 \/ Char(s, i - 1) \in whitespace)})

\* The operator `sub in s` of Python on strings.
Contains(sub, s) ==
    \E i \in 1..(Len(s) - Len(sub) + 1) : SubSeq(s, i, i + Len(sub) - 1) = sub

\* str(b) of a bool, as an f-string formats it.
str(b) == IF b THEN "True" ELSE "False"

\* min(a, b)
min(a, b) == IF a <= b THEN a ELSE b

(***************************************************************************)
(* The tables of the code, verbatim.                                       *)
(***************************************************************************)
(* src/Backend/app.py:125-131, the dict `categories` in insertion order *)
App_categories ==
    << [category |-> "creative_writing",
        keywords |-> <<"write", "story", "poem", "character", "fiction", "narrative", "creative">>],
       [category |-> "code_generation",
        keywords |-> <<"code", "function", "program", "algorithm", "python", "javascript", "java", "html">>],
       [category |-> "business_communication",
        keywords |-> <<"business", "email", "proposal", "report", "presentation", "marketing", "sales">>],
       [category |-> "academic_research",
        keywords |-> <<"research", "paper", "thesis", "study", "academic", "essay", "analysis">>],
       [category |-> "data_analysis",
        keywords |-> <<"data", "analyze", "statistics", "chart", "graph", "visualization", "excel">>] >>

(* src/Backend/main.py:62-71, the if/elif chain in its order *)
Main_categories ==
    << [category |-> "creative_writing",
        keywords |-> <<"write", "story", "poem", "character", "fiction">>],
       [category |-> "code_generation",
        keywords |-> <<"code", "function", "program", "algorithm", "python">>],
       [category |-> "business_communication",
        keywords |-> <<"business", "email", "proposal", "report", "marketing">>],
       [category |-> "academic_research",
        keywords |-> <<"research", "paper", "thesis", "study", "academic">>],
       [category |-> "data_analysis",
        keywords |-> <<"data", "analyze", "statistics", "chart", "graph">>] >>

(* src/Backend/app.py:140-207, the dict `templates` *)
App_templates ==
    [ creative_writing |->
        "\n            Transform this into a professional creative writing prompt with:\n            1. SPECIFIC GENRE & STYLE: Specify exact genre, tone, and writing style\n            2. CHARACTER DEVELOPMENT: Define main characters with specific traits and arcs\n            3. SETTING DETAILS: Provide vivid location, time period, and atmosphere\n            4. PLOT STRUCTURE: Outline beginning, conflict, climax, and resolution\n            5. THEMES & SYMBOLISM: Specify underlying themes\n            6. TECHNICAL REQUIREMENTS: Word count, POV, tense, dialogue ratio\n            7. CREATIVE CONSTRAINTS: Specific challenges or unique requirements\n            \n            Format the response clearly with sections.\n            ",
      code_generation |->
        "\n            Transform this into a professional coding prompt with:\n            1. LANGUAGE & VERSION: Specify exact programming language and version\n            2. FUNCTION SPECIFICATION: Clear input parameters and return types\n            3. EDGE CASES: Specific edge cases to handle\n            4. PERFORMANCE: Time/space complexity requirements\n            5. STYLE GUIDE: Code formatting rules and documentation\n            6. TEST CASES: Specific input/output examples\n            7. ERROR HANDLING: How to handle exceptions\n            \n            Format the response clearly with sections.\n            ",
      business_communication |->
        "\n            Transform this into a professional business communication prompt with:\n            1. AUDIENCE: Specific target audience with their knowledge level\n            2. PURPOSE: Clear objective and desired outcome\n            3. TONE & STYLE: Formal, persuasive, or informative tone\n            4. STRUCTURE: Specific sections to include\n            5. KEY POINTS: Mandatory points to cover\n            6. FORMAT: Email, report, proposal, or presentation format\n            7. LENGTH: Specific word count or duration\n            8. SUCCESS METRICS: How effectiveness will be measured\n            \n            Format the response clearly with sections.\n            ",
      academic_research |->
        "\n            Transform this into a professional academic research prompt with:\n            1. ACADEMIC LEVEL: Undergraduate, graduate, or doctoral\n            2. RESEARCH QUESTION: Clear and specific research question\n            3. METHODOLOGY: Required research methods\n            4. SOURCES: Required number and type of sources\n            5. CITATION STYLE: APA, MLA, Chicago, etc.\n            6. STRUCTURE: Required sections (abstract, intro, methodology, etc.)\n            7. WORD COUNT: Specific length requirement\n            8. EVALUATION CRITERIA: How the work will be graded\n            \n            Format the response clearly with sections.\n            ",
      data_analysis |->
        "\n            Transform this into a professional data analysis prompt with:\n            1. DATA SOURCES: Specify where data comes from\n            2. ANALYSIS METHODS: Required statistical tests or methods\n            3. VISUALIZATION: Required charts or graphs\n            4. TOOLS: Specific software or libraries to use\n            5. OUTPUT FORMAT: How results should be presented\n            6. KEY INSIGHTS: What insights to extract\n            7. LIMITATIONS: Analysis constraints or limitations\n            \n            Format the response clearly with sections.\n            " ]

(* src/Backend/app.py:209-219, the default of templates.get *)
App_default_template ==
    "\n        Transform this basic prompt into a detailed, professional prompt with:\n        1. Clear objectives and deliverables\n        2. Specific requirements and constraints\n        3. Format and structure guidelines\n        4. Success criteria and evaluation metrics\n        5. Appropriate tone and style\n        \n        Make it comprehensive, actionable, and ready for professional use.\n        Format the response clearly with sections.\n        "

(***************************************************************************)
(* detect_category                                                         *)
(***************************************************************************)
GENERAL == "general"

\* Mutant of first_match: the loop keeps scanning after a match, so the last
\* matching entry wins.
RECURSIVE last_match(_, _, _)
last_match(categories, prompt_lower, i) ==
    IF i > Len(categories) THEN GENERAL
    ELSE LET later == last_match(categories, prompt_lower, i + 1)
         IN  IF later # GENERAL THEN later
             ELSE IF \E k \in 1..Len(categories[i].keywords) :
                        Contains(categories[i].keywords[k], prompt_lower)
                  THEN categories[i].category
                  ELSE GENERAL

\* Mutant of first_match: after the loop the loop variable is returned, the
\* category of the last entry, instead of GENERAL.
RECURSIVE first_match_leaking(_, _, _)
first_match_leaking(categories, prompt_lower, i) ==
    IF i > Len(categories) THEN categories[Len(categories)].category
    ELSE IF \E k \in 1..Len(categories[i].keywords) :
                Contains(categories[i].keywords[k], prompt_lower)
         THEN categories[i].category
         ELSE first_match_leaking(categories, prompt_lower, i + 1)

\* The scan of both variants: the category of the first entry, in the order
\* of the table, one of whose keywords is a substring of prompt_lower; when no
\* entry matches, the return after the loop.
RECURSIVE first_match(_, _, _)
first_match(categories, prompt_lower, i) ==
    IF i > Len(categories) THEN GENERAL
    ELSE IF \E k \in 1..Len(categories[i].keywords) :
                Contains(categories[i].keywords[k], prompt_lower)
         THEN categories[i].category
         ELSE first_match(categories, prompt_lower, i + 1)

App_detect_category(prompt) == first_match(App_categories, lower(prompt), 1)

Main_detect_category(prompt) == first_match(Main_categories, lower(prompt), 1)

(***************************************************************************)
(* get_enhancement_template                                                *)
(***************************************************************************)
\* Mutant of App_get_enhancement_template: "general" has the generic template
\* and a category absent from the table gets no text.
App_get_enhancement_template_no_default(category) ==
    IF category \in DOMAIN App_templates
    THEN App_templates[category]
    ELSE IF category = GENERAL THEN App_default_template ELSE ""

\* templates.get(category, default)
App_get_enhancement_template(category) ==
    IF category \in DOMAIN App_templates
    THEN App_templates[category]
    ELSE App_default_template

(***************************************************************************)
(* calculate_metrics                                                       *)
(***************************************************************************)
\* Mutant of App_calculate_metrics: every marker word scores on its own and
\* the sum is not clamped.
App_calculate_metrics_unclamped(prompt) ==
    LET words == split_len(prompt)
        chars == Len(prompt)
        low   == lower(prompt)
        Bonus(word) == IF Contains(word, low) THEN 25 ELSE 0
    IN  [word_count     |-> words,
         char_count     |-> chars,
         token_estimate |-> chars \div 4,
         quality_score  |-> (IF words > 50 THEN 25 ELSE 0)
                            + Bonus("specific") + Bonus("detailed")
                            + Bonus("format") + Bonus("structure")
                            + Bonus("must") + Bonus("should")]

\* Mutant of App_calculate_metrics: the length bonus starts at 50 words.
App_calculate_metrics_from_fifty(prompt) ==
    LET words == split_len(prompt)
        chars == Len(prompt)
        low   == lower(prompt)
        score == (IF words >= 50 THEN 25 ELSE 0)
               + (IF Contains("specific", low) \/ Contains("detailed", low)
                  THEN 25 ELSE 0)
               + (IF Contains("format", low) \/ Contains("structure", low)
                  THEN 25 ELSE 0)
               + (IF Contains("must", low) \/ Contains("should", low)
                  THEN 25 ELSE 0)
    IN  [word_count     |-> words,
         char_count     |-> chars,
         token_estimate |-> chars \div 4,
         quality_score  |-> min(score, 100)]

\* Mutant of App_calculate_metrics: the length bonus grows with the length.
App_calculate_metrics_graded(prompt) ==
    LET words == split_len(prompt)
        chars == Len(prompt)
        low   == lower(prompt)
        score == min(words \div 2, 25)
               + (IF Contains("specific", low) \/ Contains("detailed", low)
                  THEN 25 ELSE 0)
               + (IF Contains("format", low) \/ Contains("structure", low)
                  THEN 25 ELSE 0)
               + (IF Contains("must", low) \/ Contains("should", low)
                  THEN 25 ELSE 0)
    IN  [word_count     |-> words,
         char_count     |-> chars,
         token_estimate |-> chars \div 4,
         quality_score  |-> min(score, 100)]

App_calculate_metrics(prompt) ==
    LET words == split_len(prompt)
        chars == Len(prompt)
        low   == lower(prompt)
        score == (IF words > 50 THEN 25 ELSE 0)
               + (IF Contains("specific", low) \/ Contains("detailed", low)
                  THEN 25 ELSE 0)
               + (IF Contains("format", low) \/ Contains("structure", low)
                  THEN 25 ELSE 0)
               + (IF Contains("must", low) \/ Contains("should", low)
                  THEN 25 ELSE 0)
    IN  [word_count     |-> words,
         char_count     |-> chars,
         token_estimate |-> chars \div 4,
         quality_score  |-> min(score, 100)]

\* Mutant of Main_calculate_metrics: the length test is inverted, so a text of
\* at most 50 words gets the length bonus.
Main_calculate_metrics_short_bonus(prompt) ==
    LET words == split_len(prompt)
        chars == Len(prompt)
        low   == lower(prompt)
        score == (IF words <= 50 THEN 25 ELSE 0)
               + (IF Contains("specific", low) THEN 25 ELSE 0)
               + (IF Contains("format", low) THEN 25 ELSE 0)
               + (IF Contains("must", low) THEN 25 ELSE 0)
    IN  [word_count     |-> words,
         token_estimate |-> chars \div 4,
         quality_score  |-> min(score, 100)]

\* Mutant of Main_calculate_metrics: five marker bonuses of 20, 20, 15, 10
\* and 10 points.
Main_calculate_metrics_five_bonuses(prompt) ==
    LET words == split_len(prompt)
        chars == Len(prompt)
        low   == lower(prompt)
        score == (IF words > 50 THEN 25 ELSE 0)
               + (IF Contains("specific", low) THEN 20 ELSE 0)
               + (IF Contains("format", low) THEN 20 ELSE 0)
               + (IF Contains("must", low) THEN 15 ELSE 0)
               + (IF Contains("example", low) THEN 10 ELSE 0)
               + (IF Contains("tone", low) THEN 10 ELSE 0)
    IN  [word_count     |-> words,
         token_estimate |-> chars \div 4,
         quality_score  |-> min(score, 100)]

Main_calculate_metrics(prompt) ==
    LET words == split_len(prompt)
        chars == Len(prompt)
        low   == lower(prompt)
        score == (IF words > 50 THEN 25 ELSE 0)
               + (IF Contains("specific", low) THEN 25 ELSE 0)
               + (IF Contains("format", low) THEN 25 ELSE 0)
               + (IF Contains("must", low) THEN 25 ELSE 0)
    IN  [word_count     |-> words,
         token_estimate |-> chars \div 4,
         quality_score  |-> min(score, 100)]

(***************************************************************************)
(* _fallback_enhancement and the composite prompt of enhance               *)
(***************************************************************************)
(* src/Backend/app.py:249-264, the f-string enhancement_prompt *)
App_enhancement_prompt(request, category, template) ==
    "\n        You are an expert prompt engineer. Transform this basic user request into a professional, detailed AI prompt.\n        \n        USER'S BASIC REQUEST: \""
    \o request.prompt
    \o "\"\n        \n        CATEGORY: "
    \o title(replace(category, "_", " "))
    \o "\n        TONE: "
    \o request.tone
    \o "\n        INCLUDE EXAMPLES: "
    \o str(request.include_examples)
    \o "\n        TARGET LENGTH: "
    \o request.target_length
    \o "\n        \n        ENHANCEMENT GUIDELINES:\n        "
    \o template
    \o "\n        \n        Provide ONLY the enhanced professional prompt. No additional commentary or explanations.\n        Make it detailed, specific, and ready to be used with an AI system.\n        "

(* src/Backend/app.py:298-349 *)
App_fallback_enhancement(prompt, category) ==
    LET category_name == title(replace(category, "_", " ")) IN
    "PROFESSIONAL PROMPT: "
    \o prompt
    \o "\n\nCATEGORY: "
    \o category_name
    \o "\n\nDETAILED REQUIREMENTS:\n\n1. OBJECTIVE:\n- Clearly define the primary goal and desired outcome\n- Specify what success looks like for this task\n\n2. CONTEXT & BACKGROUND:\n- Provide necessary background information\n- Explain the purpose and importance of this task\n- Define the target audience or end-user\n\n3. SPECIFIC REQUIREMENTS:\n- List all mandatory elements that must be included\n- Define any constraints or limitations\n- Specify technical or creative requirements\n\n4. FORMAT & STRUCTURE:\n- Describe the expected output format\n- Outline the required structure or sections\n- Specify length, style, and tone requirements\n\n5. QUALITY CRITERIA:\n- Define how quality will be measured\n- List specific evaluation metrics\n- Include any rubrics or scoring guidelines\n\n6. EXAMPLES (if applicable):\n- Provide sample inputs and expected outputs\n- Include templates or formats to follow\n- Show examples of successful implementations\n\n7. ADDITIONAL NOTES:\n- Any special considerations or edge cases\n- Resources or references to use\n- Deadline or timeline information\n\nEXPECTED OUTPUT:\nA comprehensive, professional response that addresses all specified requirements with "
    \o category_name
    \o " best practices.\n\nCONSTRAINTS:\n- Must be original and creative\n- Should follow "
    \o category_name
    \o " conventions\n- Avoid vague language; be specific and actionable\n- Maintain professional tone throughout"

(* src/Backend/main.py:127-204, the dict `templates` of f-strings filled with the prompt *)
Main_fallback_templates(prompt) ==
    [ creative_writing |->
        "PROFESSIONAL WRITING PROMPT: "
        \o prompt
        \o "\n\nGENRE: Specified based on prompt\nTONE: Professional, engaging\nLENGTH: 1000-2000 words\n\nCHARACTERS:\n- Protagonist with clear motivation\n- Supporting characters with distinct personalities\n- Antagonist with believable motivations\n\nSETTING:\n- Vivid, sensory-rich environment\n- Appropriate time period\n- Consistent world-building\n\nPLOT STRUCTURE:\n- Clear beginning, middle, and end\n- Rising action and climax\n- Satisfying resolution\n\nREQUIREMENTS:\n- Show, don't tell\n- Use active voice\n- Include dialogue\n- Create emotional impact",
      code_generation |->
        "PROFESSIONAL CODING PROMPT: "
        \o prompt
        \o "\n\nLANGUAGE: Python 3.10+\nREQUIREMENTS:\n- Clean, documented code\n- Error handling\n- Type hints\n- Unit tests\n\nFUNCTIONALITY:\n- Clear input/output specification\n- Edge cases handled\n- Performance considerations\n- Security best practices\n\nSTRUCTURE:\n- Modular design\n- Appropriate separation of concerns\n- Follows PEP 8 guidelines\n\nDELIVERABLES:\n- Working code\n- Documentation\n- Test cases\n- Usage examples",
      business_communication |->
        "PROFESSIONAL BUSINESS PROMPT: "
        \o prompt
        \o "\n\nAUDIENCE: Professional stakeholders\nTONE: Formal, clear, persuasive\nFORMAT: Structured document/email\n\nCONTENT:\n- Clear objective statement\n- Supporting arguments/data\n- Call to action\n- Professional closing\n\nSTRUCTURE:\n- Introduction\n- Body with key points\n- Conclusion\n- Next steps\n\nREQUIREMENTS:\n- Professional language\n- Data-driven arguments\n- Clear formatting\n- Proofread for errors" ]

(* src/Backend/main.py:206-226, the default of templates.get *)
Main_fallback_default(prompt) ==
    "PROFESSIONAL PROMPT: "
    \o prompt
    \o "\n\nOBJECTIVES:\n- Clear, specific goals\n- Measurable outcomes\n- Realistic constraints\n\nREQUIREMENTS:\n- Detailed specifications\n- Quality standards\n- Delivery timeline\n\nFORMAT:\n- Structured response\n- Appropriate length\n- Professional tone\n\nEVALUATION:\n- Success criteria\n- Quality metrics\n- Review process"

(* src/Backend/main.py:232-244, the f-string enhancement_prompt *)
Main_enhancement_prompt(request, category) ==
    "\n        Transform this basic prompt into a detailed, professional AI prompt:\n        \n        Original: \""
    \o request.prompt
    \o "\"\n        \n        Category: "
    \o category
    \o "\n        Tone: "
    \o request.tone
    \o "\n        \n        Make it specific, actionable, and ready for professional use.\n        Include clear objectives, requirements, format guidelines, and success criteria.\n        \n        Return ONLY the enhanced prompt, no additional text.\n        "

Main_fallback_enhancement(prompt, category) ==
    LET templates == Main_fallback_templates(prompt)
    IN  IF category \in DOMAIN templates
        THEN templates[category]
        ELSE Main_fallback_default(prompt)

(***************************************************************************)
(* The request and what enhance does with it                               *)
(***************************************************************************)
\* Mutant of App_category: the classifier decides whatever the request holds.
App_category_detect_always(request) == App_detect_category(request.prompt)

\* category = request.category or self.detect_category(request.prompt):
\* `or` takes its right operand when the left one is None or the empty string.
App_category(request) ==
    IF request.has_category /\ request.category # ""
    THEN request.category
    ELSE App_detect_category(request.prompt)

Main_category(request) ==
    IF request.has_category /\ request.category # ""
    THEN request.category
    ELSE Main_detect_category(request.prompt)

\* Whether the right operand of that `or` is evaluated.
CallsDetect(request) == ~(request.has_category /\ request.category # "")

(***************************************************************************)
(* The Gemini call.  What the HTTP exchange does is the environment's      *)
(* choice:                                                                 *)
(*   text             a 200 reply whose first candidate holds a text       *)
(*   null_text        a 200 reply whose first candidate's text is null     *)
(*   no_candidates    a 200 reply with no "candidates" or an empty list    *)
(*   malformed        a 200 reply whose first candidate lacks content,     *)
(*                    parts or text (KeyError, IndexError)                 *)
(*   http_error       raise_for_status raises (4xx, 5xx, quota)            *)
(*   transport_error  the post raises (connection, timeout)                *)
(* A call returns [raised, is_none, text].                                 *)
(***************************************************************************)
Returned(text) == [raised |-> FALSE, is_none |-> FALSE, text |-> text]

ReturnedNone == [raised |-> FALSE, is_none |-> TRUE, text |-> ""]

Raised == [raised |-> TRUE, is_none |-> FALSE, text |-> ""]

\* GeminiAPI.generate: every failure, the missing candidates included, raises.
App_generate(o) ==
    CASE o.kind = "text"          -> Returned(o.text)
      [] o.kind = "null_text"     -> ReturnedNone
      [] o.kind = "no_candidates" -> Raised
      [] OTHER                    -> Raised

\* PromptEnhancer.call_gemini_api: missing candidates return a message.
Main_call_gemini_api(o) ==
    CASE o.kind = "text"          -> Returned(o.text)
      [] o.kind = "null_text"     -> ReturnedNone
      [] o.kind = "no_candidates" -> Returned("Error: No response from AI")
      [] OTHER                    -> Raised

(***************************************************************************)
(* Inputs                                                                  *)
(***************************************************************************)
Vocabulary == {"Write", "python", "hello"}

RECURSIVE Phrases(_)
Phrases(n) ==
    IF n = 0 THEN {""}
    ELSE LET shorter == Phrases(n - 1)
         IN  shorter \cup {IF p = "" THEN w ELSE p \o " " \o w :
                              p \in shorter, w \in Vocabulary}

FixedPrompts == {"write a python function", "Write a story about a dragon"}

\* PromptRequest.prompt has min_length 1.
Prompts == (Phrases(MaxWords) \ {""}) \cup FixedPrompts

SuppliedCategories == {"", "code_generation", "general", "nonexistent_tag"}

RequestOptions ==
    {[tone |-> "professional", include_examples |-> TRUE,
      target_length |-> "detailed"],
     [tone |-> "casual", include_examples |-> FALSE,
      target_length |-> "brief"]}

Requests ==
    {[prompt |-> p, has_category |-> FALSE, category |-> "",
      tone |-> opt.tone, include_examples |-> opt.include_examples,
      target_length |-> opt.target_length] :
        p \in Prompts, opt \in RequestOptions}
    \cup
    {[prompt |-> p, has_category |-> TRUE, category |-> c,
      tone |-> opt.tone, include_examples |-> opt.include_examples,
      target_length |-> opt.target_length] :
        p \in Prompts, c \in SuppliedCategories, opt \in RequestOptions}

RECURSIVE Repeat(_, _)
Repeat(s, n) == IF n = 0 THEN "" ELSE s \o Repeat(s, n - 1)

\* A text of more than 50 words that holds every marker word of both scorers.
StressText ==
    Repeat("word ", 51)
        \o "Be SPECIFIC and detailed; the FORMAT and structure must and should hold."

ReplyTexts ==
    {"", "  Be specific.\n", "\n\nBe specific.\n\n", Repeat("word ", 51),
     StressText}

FailureKinds == {"no_candidates", "malformed", "http_error", "transport_error"}

Outcomes ==
    {[kind |-> "text", text |-> t] : t \in ReplyTexts}
    \cup {[kind |-> k, text |-> ""] : k \in FailureKinds \cup {"null_text"}}

Texts == Prompts \cup ReplyTexts

(***************************************************************************)
(* State                                                                   *)
(***************************************************************************)
VARIABLES
    api_key,             \* whether GEMINI_API_KEY is set to a non-empty value
    pc,                  \* "idle" or "done": a call is finished and not yet returned
    call,                \* the file and the operation of the call
    request,             \* the request of the call
    detected,            \* detect_category: whether called, its text, its result
    category,            \* the local `category` of enhance
    template,            \* the local `template` of enhance
    enhancement_prompt,  \* the composite prompt
    gemini,              \* the Gemini call: whether made, and the exchange
    enhanced,            \* the local `enhanced_text`, and the branch that set it
    metrics,             \* calculate_metrics: whether called, its text, its result
    response,            \* the HTTP response
    slots,               \* the enhance calls in flight on the event loop
    earlier,             \* an earlier calculate_metrics call and its result
    batch,               \* the enhance_batch call: its position and results
    db,                  \* Firestore: the user documents and project documents
    threads,             \* the requests in flight in the Flask service
    completed,           \* per project, the update_project calls completed
    render               \* the project given to build_ffmpeg_command, its command

vars ==
    <<api_key, pc, call, request, detected, category, template,
      enhancement_prompt, gemini, enhanced, metrics, response,
      slots, earlier, batch, db, threads, completed, render>>

\* The state of src/backend: the Flask service and the renderer.
FlaskVars == <<db, threads, completed, render>>

NoCall == [file |-> "", op |-> ""]

NoRequest ==
    [prompt |-> "", has_category |-> FALSE, category |-> "", tone |-> "",
     include_examples |-> FALSE, target_length |-> ""]

NotDetected == [called |-> FALSE, text |-> "", result |-> ""]

NoGemini == [called |-> FALSE, kind |-> "", text |-> ""]

NoEnhanced == [set |-> FALSE, is_none |-> FALSE, text |-> "", by |-> ""]

NoMetrics ==
    [called |-> FALSE, raised |-> FALSE, text |-> "",
     result |-> [word_count |-> 0, token_estimate |-> 0, quality_score |-> 0]]

NoResponse == [status_code |-> 0]

\* The number of enhance calls the event loop holds at once.
NumRequests == 2

Slots == 1..NumRequests

\* A slot of the event loop with no call in it.
IdleSlot ==
    [pc |-> "idle", file |-> "", request |-> NoRequest, category |-> "",
     enhancement_prompt |-> "", gemini |-> NoGemini, enhanced |-> NoEnhanced,
     metrics |-> NoMetrics, response |-> NoResponse]

NoEarlier ==
    [called |-> FALSE, file |-> "", text |-> "", api_key |-> FALSE,
     result |-> NoMetrics.result]

NoBatch ==
    [pc |-> "idle", prompts |-> <<>>, has_category |-> FALSE, category |-> "",
     results |-> <<>>, raised |-> <<>>, response |-> NoResponse]

\* The users of the Flask service: alice has a user document, bob has none
\* (no code of the service creates user documents).
Users == {"alice", "bob"}

\* The most project documents and the most completed updates of a run.
MaxProjects == 2

MaxUpdates == 2

\* The number of requests the threaded Flask server handles at once.
NumThreads == 2

Threads == 1..NumThreads

IdleThread ==
    [pc |-> "idle", op |-> "", user_id |-> "", project_id |-> 0,
     response |-> NoResponse]

\* Firestore before the first request.  The project documents are kept in the
\* order of their creation; the n-th uuid4 is modelled as n.
InitialDb ==
    [users |-> [u \in Users |->
                   [exists |-> u = "alice", projectsCount |-> 0]],
     projects |-> <<>>]

NoRender == [built |-> FALSE, layers |-> <<>>, command |-> <<>>]

Init ==
    /\ api_key \in BOOLEAN
    /\ pc = "idle"
    /\ call = NoCall
    /\ request = NoRequest
    /\ detected = NotDetected
    /\ category = ""
    /\ template = ""
    /\ enhancement_prompt = ""
    /\ gemini = NoGemini
    /\ enhanced = NoEnhanced
    /\ metrics = NoMetrics
    /\ response = NoResponse
    /\ slots = [i \in Slots |-> IdleSlot]
    /\ earlier = NoEarlier
    /\ batch = NoBatch
    /\ db = InitialDb
    /\ threads = [t \in Threads |-> IdleThread]
    /\ completed = [i \in 1..MaxProjects |-> 0]
    /\ render = NoRender

(***************************************************************************)
(* Operations                                                              *)
(***************************************************************************)
\* The exchange of a call that is never made.
NoOutcome == [kind |-> "", text |-> ""]

\* The exchanges a call can see: none without an API key.
OutcomesFor(key) == IF key THEN Outcomes ELSE {NoOutcome}

\* calculate_metrics(None) raises AttributeError at prompt.split().
MetricsRaised == [NoMetrics EXCEPT !.called = TRUE, !.raised = TRUE]

\* POST /api/v1/enhance of src/Backend/app.py: enhancer.enhance(request), and
\* an exception of it answered with status 500.
App_enhance_prompt(r, o) ==
    /\ pc = "idle"
    /\ LET cat       == App_category(r)
           tpl       == App_get_enhancement_template(cat)
           got       == App_generate(o)
           by_gemini == api_key /\ ~got.raised
           text      == IF by_gemini
                        THEN got
                        ELSE Returned(App_fallback_enhancement(r.prompt, cat))
           m         == App_calculate_metrics(text.text)
       IN  /\ call' = [file |-> "Backend/app.py", op |-> "enhance_prompt"]
           /\ request' = r
           /\ detected' = IF CallsDetect(r)
                          THEN [called |-> TRUE, text |-> r.prompt,
                                result |-> App_detect_category(r.prompt)]
                          ELSE NotDetected
           /\ category' = cat
           /\ template' = tpl
           /\ enhancement_prompt' = App_enhancement_prompt(r, cat, tpl)
           /\ gemini' = IF api_key
                        THEN [called |-> TRUE, kind |-> o.kind, text |-> o.text]
                        ELSE NoGemini
           /\ enhanced' = [set |-> TRUE, is_none |-> text.is_none,
                           text |-> text.text,
                           by |-> IF by_gemini THEN "gemini" ELSE "fallback"]
           /\ metrics' = IF text.is_none
                         THEN MetricsRaised
                         ELSE [called |-> TRUE, raised |-> FALSE,
                               text |-> text.text, result |-> m]
           /\ response' =
                IF text.is_none
                THEN [status_code |-> 500, error |-> TRUE,
                      message |-> "Error processing prompt: 'NoneType' object has no attribute 'split'"]
                ELSE [status_code     |-> 200,
                      original_prompt |-> r.prompt,
                      enhanced_prompt |-> strip(text.text),
                      category        |-> cat,
                      metadata        |->
                          [tone |-> r.tone,
                           include_examples |-> r.include_examples,
                           target_length |-> r.target_length,
                           enhancement_method |->
                               IF api_key THEN "gemini_api" ELSE "fallback"],
                      word_count      |-> m.word_count,
                      token_estimate  |-> m.token_estimate,
                      quality_score   |-> m.quality_score,
                      status          |-> "success"]
    /\ pc' = "done"
    /\ UNCHANGED api_key

\* POST /api/enhance of src/Backend/main.py.
Main_enhance_prompt(r, o) ==
    /\ pc = "idle"
    /\ LET cat       == Main_category(r)
           got       == Main_call_gemini_api(o)
           by_gemini == api_key /\ ~got.raised
           text      == IF by_gemini
                        THEN got
                        ELSE Returned(Main_fallback_enhancement(r.prompt, cat))
           m         == Main_calculate_metrics(text.text)
       IN  /\ call' = [file |-> "Backend/main.py", op |-> "enhance_prompt"]
           /\ request' = r
           /\ detected' = IF CallsDetect(r)
                          THEN [called |-> TRUE, text |-> r.prompt,
                                result |-> Main_detect_category(r.prompt)]
                          ELSE NotDetected
           /\ category' = cat
           /\ template' = ""
           /\ enhancement_prompt' = Main_enhancement_prompt(r, cat)
           /\ gemini' = IF api_key
                        THEN [called |-> TRUE, kind |-> o.kind, text |-> o.text]
                        ELSE NoGemini
           /\ enhanced' = [set |-> TRUE, is_none |-> text.is_none,
                           text |-> text.text,
                           by |-> IF by_gemini THEN "gemini" ELSE "fallback"]
           /\ metrics' = IF text.is_none
                         THEN MetricsRaised
                         ELSE [called |-> TRUE, raised |-> FALSE,
                               text |-> text.text, result |-> m]
           /\ response' =
                IF text.is_none
                THEN [status_code |-> 500,
                      detail |-> "'NoneType' object has no attribute 'split'"]
                ELSE [status_code     |-> 200,
                      original_prompt |-> r.prompt,
                      enhanced_prompt |-> strip(text.text),
                      category        |-> cat,
                      metadata        |->
                          [tone |-> r.tone,
                           include_examples |-> r.include_examples,
                           target_length |-> r.target_length],
                      word_count      |-> m.word_count,
                      token_estimate  |-> m.token_estimate,
                      quality_score   |-> m.quality_score,
                      status          |-> "success"]
    /\ pc' = "done"
    /\ UNCHANGED api_key

\* POST /generate of src/main.py.  The module raises at import without an API
\* key, so the route exists only with one.  The reply's text is used when it is
\* a non-empty string; everything else ends in status 500.
Gen_generate_prompt(user_prompt, o) ==
    /\ pc = "idle"
    /\ api_key
    /\ call' = [file |-> "main.py", op |-> "generate_prompt"]
    /\ request' = [NoRequest EXCEPT !.prompt = user_prompt]
    /\ gemini' = [called |-> TRUE, kind |-> o.kind, text |-> o.text]
    /\ response' =
         IF o.kind = "text" /\ o.text # ""
         THEN [status_code |-> 200, professional_prompt |-> strip(o.text)]
         ELSE [status_code |-> 500, detail |-> "Gemini generation failed"]
    /\ pc' = "done"
    /\ UNCHANGED <<api_key, detected, category, template, enhancement_prompt,
                   enhanced, metrics>>

\* A direct call of PromptEnhancer.detect_category.
DetectCategory(file, text) ==
    /\ pc = "idle"
    /\ call' = [file |-> file, op |-> "detect_category"]
    /\ detected' = [called |-> TRUE, text |-> text,
                    result |-> IF file = "Backend/app.py"
                               THEN App_detect_category(text)
                               ELSE Main_detect_category(text)]
    /\ pc' = "done"
    /\ UNCHANGED <<api_key, request, category, template, enhancement_prompt,
                   gemini, enhanced, metrics, response>>

\* Mutant of CalculateMetrics: the score is kept on the enhancer and the next
\* call adds to it.
CalculateMetrics_accumulating(file, text) ==
    /\ pc = "idle"
    /\ call' = [file |-> file, op |-> "calculate_metrics"]
    /\ LET m == IF file = "Backend/app.py"
                THEN App_calculate_metrics(text)
                ELSE Main_calculate_metrics(text)
       IN  metrics' = [called |-> TRUE, raised |-> FALSE, text |-> text,
                       result |-> [m EXCEPT !.quality_score =
                           min(@ + earlier.result.quality_score, 100)]]
    /\ pc' = "done"
    /\ UNCHANGED <<api_key, request, detected, category, template,
                   enhancement_prompt, gemini, enhanced, response>>

\* A direct call of PromptEnhancer.calculate_metrics.
CalculateMetrics(file, text) ==
    /\ pc = "idle"
    /\ call' = [file |-> file, op |-> "calculate_metrics"]
    /\ metrics' = [called |-> TRUE, raised |-> FALSE, text |-> text,
                   result |-> IF file = "Backend/app.py"
                              THEN App_calculate_metrics(text)
                              ELSE Main_calculate_metrics(text)]
    /\ pc' = "done"
    /\ UNCHANGED <<api_key, request, detected, category, template,
                   enhancement_prompt, gemini, enhanced, response>>

\* A direct call of PromptEnhancer.get_enhancement_template (src/Backend/app.py).
GetEnhancementTemplate(c) ==
    /\ pc = "idle"
    /\ call' = [file |-> "Backend/app.py", op |-> "get_enhancement_template"]
    /\ category' = c
    /\ template' = App_get_enhancement_template(c)
    /\ pc' = "done"
    /\ UNCHANGED <<api_key, request, detected, enhancement_prompt, gemini,
                   enhanced, metrics, response>>

\* The call returns: nothing of it is kept (the enhancer holds only api_key).
Return ==
    /\ pc = "done"
    /\ pc' = "idle"
    /\ call' = NoCall
    /\ request' = NoRequest
    /\ detected' = NotDetected
    /\ category' = ""
    /\ template' = ""
    /\ enhancement_prompt' = ""
    /\ gemini' = NoGemini
    /\ enhanced' = NoEnhanced
    /\ metrics' = NoMetrics
    /\ response' = NoResponse
    /\ UNCHANGED api_key

Files == {"Backend/app.py", "Backend/main.py"}

CategoryArguments ==
    {App_categories[i].category : i \in 1..Len(App_categories)}
        \cup SuppliedCategories

\* The state outside the calls of the enhancer made one at a time.
ElsewhereVars == <<slots, earlier, batch, FlaskVars>>

\* One call at a time: the event loop, the history, the batch route and the
\* Flask service rest.
Next ==
    \/ \E r \in Requests : \E o \in OutcomesFor(api_key) :
           App_enhance_prompt(r, o) /\ UNCHANGED ElsewhereVars
    \/ \E r \in Requests : \E o \in OutcomesFor(api_key) :
           Main_enhance_prompt(r, o) /\ UNCHANGED ElsewhereVars
    \/ \E p \in Prompts : \E o \in Outcomes :
           Gen_generate_prompt(p, o) /\ UNCHANGED ElsewhereVars
    \/ \E f \in Files : \E t \in Texts :
           DetectCategory(f, t) /\ UNCHANGED ElsewhereVars
    \/ \E f \in Files : \E t \in Texts :
           CalculateMetrics(f, t) /\ UNCHANGED ElsewhereVars
    \/ \E c \in CategoryArguments :
           GetEnhancementTemplate(c) /\ UNCHANGED ElsewhereVars
    \/ Return /\ UNCHANGED ElsewhereVars

Spec == Init /\ [][Next]_vars

(***************************************************************************)
(* Concurrent enhance calls                                                *)
(*                                                                         *)
(* The routes are coroutines on one event loop and share the one module    *)
(* level enhancer.  A coroutine runs without interruption up to an await;  *)
(* enhance has a single await, the Gemini call, and none without a key.    *)
(***************************************************************************)
ConcRequests ==
    {[prompt |-> "Write a story about a dragon", has_category |-> FALSE,
      category |-> "", tone |-> "professional", include_examples |-> TRUE,
      target_length |-> "detailed"],
     [prompt |-> "python", has_category |-> FALSE,
      category |-> "", tone |-> "casual", include_examples |-> FALSE,
      target_length |-> "brief"],
     [prompt |-> "hello", has_category |-> TRUE,
      category |-> "business_communication", tone |-> "professional",
      include_examples |-> TRUE, target_length |-> "detailed"]}

ConcOutcomes ==
    {[kind |-> "text", text |-> "  Be specific.\n"],
     [kind |-> "http_error", text |-> ""],
     [kind |-> "no_candidates", text |-> ""]}

\* A composite that is appended to a buffer the calls in flight share.
Enhance_compose_shared_buffer(file, r) ==
    LET own    == IF file = "Backend/app.py"
                  THEN App_enhancement_prompt(r, App_category(r),
                           App_get_enhancement_template(App_category(r)))
                  ELSE Main_enhancement_prompt(r, Main_category(r))
        others == {j \in Slots : slots[j].pc = "awaiting"}
    IN  IF others = {} THEN own
        ELSE slots[CHOOSE j \in others : TRUE].enhancement_prompt \o own

\* The composite prompt of enhance: built from the request, the category
\* resolved from the request and (src/Backend/app.py) the category's template.
Enhance_compose(file, r) ==
    IF file = "Backend/app.py"
    THEN App_enhancement_prompt(r, App_category(r),
             App_get_enhancement_template(App_category(r)))
    ELSE Main_enhancement_prompt(r, Main_category(r))

\* Locals kept on the shared enhancer: a later call overwrites the category.
Enhance_locals_on_enhancer(i) ==
    LET others == {j \in Slots \ {i} : slots[j].pc # "idle"}
    IN  IF others = {} THEN slots[i]
        ELSE [slots[i] EXCEPT
                 !.category = slots[CHOOSE j \in others : TRUE].category]

\* The locals of the coroutine in slot i (request, category, the composite):
\* they live in the coroutine's own frame.
Enhance_locals(i) == slots[i]

\* enhance from the Gemini call on, for the locals l and the exchange o (none
\* without a key): the enhanced text, its metrics and the response.
Enhance_complete(l, o) ==
    LET app       == l.file = "Backend/app.py"
        got       == IF app THEN App_generate(o) ELSE Main_call_gemini_api(o)
        by_gemini == api_key /\ ~got.raised
        fallback  == IF app
                     THEN App_fallback_enhancement(l.request.prompt, l.category)
                     ELSE Main_fallback_enhancement(l.request.prompt, l.category)
        text      == IF by_gemini THEN got ELSE Returned(fallback)
        m         == IF app THEN App_calculate_metrics(text.text)
                     ELSE Main_calculate_metrics(text.text)
        meta      == [tone |-> l.request.tone,
                      include_examples |-> l.request.include_examples,
                      target_length |-> l.request.target_length]
    IN  [l EXCEPT
           !.pc = "done",
           !.gemini = IF api_key
                      THEN [called |-> TRUE, kind |-> o.kind, text |-> o.text]
                      ELSE NoGemini,
           !.enhanced = [set |-> TRUE, is_none |-> text.is_none,
                         text |-> text.text,
                         by |-> IF by_gemini THEN "gemini" ELSE "fallback"],
           !.metrics = IF text.is_none
                       THEN MetricsRaised
                       ELSE [called |-> TRUE, raised |-> FALSE,
                             text |-> text.text, result |-> m],
           !.response =
               IF text.is_none
               THEN [status_code |-> 500]
               ELSE [status_code     |-> 200,
                     original_prompt |-> l.request.prompt,
                     enhanced_prompt |-> strip(text.text),
                     category        |-> l.category,
                     metadata        |->
                         IF app
                         THEN [tone |-> meta.tone,
                               include_examples |-> meta.include_examples,
                               target_length |-> meta.target_length,
                               enhancement_method |->
                                   IF api_key THEN "gemini_api" ELSE "fallback"]
                         ELSE meta,
                     word_count      |-> m.word_count,
                     token_estimate  |-> m.token_estimate,
                     quality_score   |-> m.quality_score,
                     status          |-> "success"]]

SequentialVars ==
    <<pc, call, request, detected, category, template, enhancement_prompt,
      gemini, enhanced, metrics, response>>

\* A request arrives and its coroutine runs up to the Gemini call; without a
\* key there is no await and the coroutine runs to its end.
Enhance_begin(i, file, r) ==
    /\ slots[i].pc = "idle"
    /\ LET l == [IdleSlot EXCEPT
                    !.pc = "awaiting",
                    !.file = file,
                    !.request = r,
                    !.category = IF file = "Backend/app.py"
                                 THEN App_category(r) ELSE Main_category(r),
                    !.enhancement_prompt = Enhance_compose(file, r)]
       IN  slots' = [slots EXCEPT
                        ![i] = IF api_key THEN l
                               ELSE Enhance_complete(l, NoOutcome)]
    /\ UNCHANGED <<api_key, SequentialVars, earlier, batch, FlaskVars>>

\* The Gemini call of slot i ends and the coroutine runs to its end.
Enhance_resume(i, o) ==
    /\ slots[i].pc = "awaiting"
    /\ slots' = [slots EXCEPT ![i] = Enhance_complete(Enhance_locals(i), o)]
    /\ UNCHANGED <<api_key, SequentialVars, earlier, batch, FlaskVars>>

\* The response of slot i is sent.
Enhance_return(i) ==
    /\ slots[i].pc = "done"
    /\ slots' = [slots EXCEPT ![i] = IdleSlot]
    /\ UNCHANGED <<api_key, SequentialVars, earlier, batch, FlaskVars>>

ConcNext ==
    \/ \E i \in Slots : \E f \in Files : \E r \in ConcRequests :
           Enhance_begin(i, f, r)
    \/ \E i \in Slots : \E o \in ConcOutcomes : Enhance_resume(i, o)
    \/ \E i \in Slots : Enhance_return(i)

ConcSpec == Init /\ [][ConcNext]_vars

(***************************************************************************)
(* Repeated calls of calculate_metrics                                     *)
(*                                                                         *)
(* calculate_metrics is called again and again on the one enhancer, with   *)
(* other calls between; `earlier` keeps one of the calls made so far.      *)
(***************************************************************************)
ScoreTexts ==
    {"", Repeat("word ", 50), Repeat("word ", 51), Repeat("word ", 100),
     "Be specific", "Use this FORMAT", "You must", "for example",
     "in a friendly tone", "for example, be specific in a friendly tone",
     "a detailed structure should hold", StressText}

\* Texts for detect_category in mixed case; the upper-case form of the
\* lower-case letter "ß" is "SS".
ClassifyTexts ==
    FixedPrompts \cup {"WRITE Python code", "Email the REPORT", "busineß"}

\* calculate_metrics returns and the call is, or is not, the one kept.
ReturnFromMetrics ==
    /\ call.op = "calculate_metrics"
    /\ Return
    /\ earlier' \in {earlier,
                     [called |-> TRUE, file |-> call.file, text |-> metrics.text,
                      api_key |-> api_key, result |-> metrics.result]}
    /\ UNCHANGED <<slots, batch, FlaskVars>>

ReturnFromOther ==
    /\ call.op # "calculate_metrics"
    /\ Return
    /\ UNCHANGED <<slots, earlier, batch, FlaskVars>>

ScoreNext ==
    \/ \E f \in Files : \E t \in ScoreTexts :
           CalculateMetrics(f, t) /\ UNCHANGED <<slots, earlier, batch, FlaskVars>>
    \/ \E f \in Files : \E t \in ClassifyTexts :
           DetectCategory(f, t) /\ UNCHANGED <<slots, earlier, batch, FlaskVars>>
    \/ ReturnFromMetrics
    \/ ReturnFromOther

ScoreSpec == Init /\ [][ScoreNext]_vars

(***************************************************************************)
(* enhance_batch (src/Backend/app.py)                                      *)
(***************************************************************************)
\* The longest list of prompts of a batch in the model (max_items is 10).
MaxPrompts == 2

\* Field(min_length=1, max_length=1000) of PromptRequest.prompt.
prompt_min_length == 1

prompt_max_length == 1000

\* The items of BatchPromptRequest.prompts are plain strings: the empty
\* string and a string of more than 1000 characters pass its validation.
BatchItems ==
    {"", "python", "Write a story about a dragon",
     Repeat(Repeat("word ", 67), 3)}

BatchPrompts ==
    UNION {[1..n -> BatchItems] : n \in 1..MaxPrompts}

BatchCategories ==
    {[has_category |-> FALSE, category |-> ""],
     [has_category |-> TRUE, category |-> "code_generation"]}

BatchOutcomes ==
    {[kind |-> "text", text |-> "  Be specific.\n"],
     [kind |-> "http_error", text |-> ""],
     [kind |-> "null_text", text |-> ""]}

\* PromptRequest(prompt=prompt, category=request.category) raises a
\* ValidationError for a prompt outside the length limits.
ValidationFails(prompt) ==
    Len(prompt) < prompt_min_length \/ Len(prompt) > prompt_max_length

\* req of enhance_batch: the other fields take their defaults.
BatchRequest(prompt) ==
    [prompt |-> prompt, has_category |-> batch.has_category,
     category |-> batch.category, tone |-> "professional",
     include_examples |-> TRUE, target_length |-> "detailed"]

\* The entry of the except branch; `error` stands for str(e).
ErrorEntry(prompt, error) ==
    [original_prompt |-> prompt,
     enhanced_prompt |-> "Error: " \o error,
     category |-> IF batch.has_category /\ batch.category # ""
                  THEN batch.category ELSE GENERAL,
     status |-> "error",
     error |-> error]

\* The body of the loop for one prompt: the entry appended to results, and
\* whether the except branch appended it.
BatchEntry(prompt, o) ==
    IF ValidationFails(prompt)
    THEN [raised |-> TRUE, entry |-> ErrorEntry(prompt, "ValidationError")]
    ELSE LET r    == BatchRequest(prompt)
             l    == [IdleSlot EXCEPT
                         !.file = "Backend/app.py",
                         !.request = r,
                         !.category = App_category(r),
                         !.enhancement_prompt = Enhance_compose("Backend/app.py", r)]
             done == Enhance_complete(l, o)
         IN  IF done.response.status_code = 200
             THEN [raised |-> FALSE,
                   entry |-> [original_prompt |-> done.response.original_prompt,
                              enhanced_prompt |-> done.response.enhanced_prompt,
                              category        |-> done.response.category,
                              metadata        |-> done.response.metadata,
                              word_count      |-> done.response.word_count,
                              token_estimate  |-> done.response.token_estimate,
                              quality_score   |-> done.response.quality_score,
                              status          |-> done.response.status]]
             ELSE [raised |-> TRUE,
                   entry |-> ErrorEntry(prompt,
                       "'NoneType' object has no attribute 'split'")]

\* The number of entries of results whose status is, or is not, "error".
RECURSIVE CountStatus(_, _)
CountStatus(results, error) ==
    IF results = <<>> THEN 0
    ELSE (IF (Head(results).status = "error") = error THEN 1 ELSE 0)
             + CountStatus(Tail(results), error)

\* The value enhance_batch returns for the results.
BatchResponse(results) ==
    [status_code |-> 200,
     count       |-> Len(results),
     successful  |-> CountStatus(results, FALSE),
     failed      |-> CountStatus(results, TRUE),
     results     |-> results]

\* POST /api/v1/enhance/batch arrives: results = [].
Batch_begin(prompts, c) ==
    /\ batch.pc = "idle"
    /\ batch' = [NoBatch EXCEPT !.pc = "running", !.prompts = prompts,
                                !.has_category = c.has_category,
                                !.category = c.category]
    /\ UNCHANGED <<api_key, SequentialVars, slots, earlier, FlaskVars>>

\* Mutant of Batch_item: the loop ends at the first exception.
Batch_item_stops_at_error(o) ==
    /\ batch.pc = "running"
    /\ LET prompt  == batch.prompts[Len(batch.results) + 1]
           e       == BatchEntry(prompt, o)
           results == Append(batch.results, e.entry)
           last    == Len(results) = Len(batch.prompts) \/ e.raised
       IN  batch' = [batch EXCEPT
                        !.results = results,
                        !.raised = Append(@, e.raised),
                        !.pc = IF last THEN "done" ELSE "running",
                        !.response = IF last THEN BatchResponse(results)
                                     ELSE NoResponse]
    /\ UNCHANGED <<api_key, SequentialVars, slots, earlier, FlaskVars>>

\* One pass of the loop, for the next prompt of the list and the exchange o of
\* its Gemini call; after the last prompt the route returns.
Batch_item(o) ==
    /\ batch.pc = "running"
    /\ LET prompt  == batch.prompts[Len(batch.results) + 1]
           e       == BatchEntry(prompt, o)
           results == Append(batch.results, e.entry)
           last    == Len(results) = Len(batch.prompts)
       IN  batch' = [batch EXCEPT
                        !.results = results,
                        !.raised = Append(@, e.raised),
                        !.pc = IF last THEN "done" ELSE "running",
                        !.response = IF last THEN BatchResponse(results)
                                     ELSE NoResponse]
    /\ UNCHANGED <<api_key, SequentialVars, slots, earlier, FlaskVars>>

\* The response of the batch is sent.
Batch_return ==
    /\ batch.pc = "done"
    /\ batch' = NoBatch
    /\ UNCHANGED <<api_key, SequentialVars, slots, earlier, FlaskVars>>

BatchNext ==
    \/ \E prompts \in BatchPrompts : \E c \in BatchCategories :
           Batch_begin(prompts, c)
    \/ \E o \in (IF api_key THEN BatchOutcomes ELSE {NoOutcome}) : Batch_item(o)
    \/ Batch_return

BatchSpec == Init /\ [][BatchNext]_vars

(***************************************************************************)
(* ProjectManager and its routes (src/backend/app.py)                      *)
(*                                                                         *)
(* Flask serves each request in a thread of its own; a thread is           *)
(* interrupted between its calls of Firestore, each of which is atomic.    *)
(***************************************************************************)
\* The state of the enhancer services.
EnhancerVars == <<api_key, SequentialVars, slots, earlier, batch>>

\* request.json of PUT /api/projects/<user_id>/<project_id>: no JSON object,
\* or an object that holds, or does not hold, a version of the caller.
UpdateData ==
    {[is_none |-> TRUE, has_version |-> FALSE, version |-> 0],
     [is_none |-> FALSE, has_version |-> FALSE, version |-> 0],
     [is_none |-> FALSE, has_version |-> TRUE, version |-> 7]}

RECURSIVE Sum(_)
Sum(counts) ==
    IF counts = <<>> THEN 0 ELSE Head(counts) + Sum(Tail(counts))

\* Mutant of UpdatedVersion: a version of the caller is written as it is.
UpdatedVersion_of_caller(current, data) ==
    IF data.has_version THEN data.version ELSE current + 1

\* The version project_ref.update(update_data) leaves in the document:
\* update_data['version'] is set to Increment(1), whatever the caller sent.
UpdatedVersion(current, data) == current + 1

\* POST /api/projects without a userId: status 400, nothing is stored.
CreateProject_no_user(t) ==
    /\ threads[t].pc = "idle"
    /\ threads' = [threads EXCEPT ![t] =
                      [IdleThread EXCEPT !.pc = "done", !.op = "create_project",
                                         !.response = [status_code |-> 400]]]
    /\ UNCHANGED <<db, completed, render, EnhancerVars>>

\* POST /api/projects up to project_ref.document(project_id).set(project):
\* the project document is stored with version 1.
CreateProject_set(t, user_id) ==
    /\ threads[t].pc = "idle"
    /\ Len(db.projects) < MaxProjects
    /\ db' = [db EXCEPT !.projects =
                 Append(@, [user |-> user_id, version |-> 1])]
    /\ threads' = [threads EXCEPT ![t] =
                      [IdleThread EXCEPT !.pc = "counting",
                                         !.op = "create_project",
                                         !.user_id = user_id,
                                         !.project_id = Len(db.projects) + 1]]
    /\ UNCHANGED <<completed, render, EnhancerVars>>

\* POST /api/projects from user_ref.update({'projectsCount': Increment(1)})
\* on: update raises NotFound for a user without a document, and the request
\* ends with status 500; the project document stays.
CreateProject_count(t) ==
    /\ threads[t].pc = "counting"
    /\ LET u == threads[t].user_id
       IN  IF db.users[u].exists
           THEN /\ db' = [db EXCEPT !.users[u].projectsCount = @ + 1]
                /\ threads' = [threads EXCEPT ![t] =
                                  [@ EXCEPT !.pc = "done",
                                            !.response =
                                                [status_code |-> 200,
                                                 projectId |-> threads[t].project_id]]]
           ELSE /\ threads' = [threads EXCEPT ![t] =
                                  [@ EXCEPT !.pc = "done",
                                            !.response = [status_code |-> 500]]]
                /\ UNCHANGED db
    /\ UNCHANGED <<completed, render, EnhancerVars>>

\* PUT /api/projects/<user_id>/<project_id>: update_project.  Without a JSON
\* object the item assignment raises; update raises NotFound for a project
\* the user does not have; otherwise the document is updated in one step.
UpdateProject(t, user_id, project_id, data) ==
    /\ threads[t].pc = "idle"
    /\ LET found == /\ ~data.is_none
                    /\ project_id <= Len(db.projects)
                    /\ db.projects[project_id].user = user_id
       IN  IF found
           THEN /\ Sum(completed) < MaxUpdates
                /\ db' = [db EXCEPT !.projects[project_id].version =
                             UpdatedVersion(@, data)]
                /\ completed' = [completed EXCEPT ![project_id] = @ + 1]
                /\ threads' = [threads EXCEPT ![t] =
                                  [IdleThread EXCEPT
                                      !.pc = "done", !.op = "update_project",
                                      !.user_id = user_id,
                                      !.project_id = project_id,
                                      !.response = [status_code |-> 200,
                                                    success |-> TRUE]]]
           ELSE /\ threads' = [threads EXCEPT ![t] =
                                  [IdleThread EXCEPT
                                      !.pc = "done", !.op = "update_project",
                                      !.user_id = user_id,
                                      !.project_id = project_id,
                                      !.response = [status_code |-> 500]]]
                /\ UNCHANGED <<db, completed>>
    /\ UNCHANGED <<render, EnhancerVars>>

\* The response of thread t is sent.
Thread_return(t) ==
    /\ threads[t].pc = "done"
    /\ threads' = [threads EXCEPT ![t] = IdleThread]
    /\ UNCHANGED <<db, completed, render, EnhancerVars>>

StoreNext ==
    \/ \E t \in Threads : CreateProject_no_user(t)
    \/ \E t \in Threads : \E u \in Users : CreateProject_set(t, u)
    \/ \E t \in Threads : CreateProject_count(t)
    \/ \E t \in Threads : \E u \in Users : \E i \in 1..MaxProjects :
           \E d \in UpdateData : UpdateProject(t, u, i, d)
    \/ \E t \in Threads : Thread_return(t)

StoreSpec == Init /\ [][StoreNext]_vars

(***************************************************************************)
(* VideoRenderer.build_ffmpeg_command (src/backend/video_processor.py)     *)
(*                                                                         *)
(* The command is kept in its parts: the arguments that add inputs, the    *)
(* filters of -filter_complex with the input reference and the labels each *)
(* of them names, and the label given to -map.                             *)
(***************************************************************************)
\* The longest list of layers of a project in the model.
MaxLayers == 3

\* Layers of a project: layers of type video and image are rendered, a layer
\* of any other type (here a text layer) is passed over.
LayerValues ==
    {[type |-> "video", source |-> "clip.mp4"],
     [type |-> "video", source |-> "intro.mp4"],
     [type |-> "image", source |-> "logo.png"],
     [type |-> "text", source |-> ""]}

Resolutions == {"1920x1080", "1280x720"}

Projects ==
    {[layers |-> l, settings |-> [resolution |-> r]] :
        l \in UNION {[1..n -> LayerValues] : n \in 0..MaxLayers},
        r \in Resolutions}

\* The arguments one layer adds to `inputs`.
LayerInputs(layer) ==
    IF layer.type = "video" THEN <<"-i", layer.source>>
    ELSE IF layer.type = "image" THEN <<"-loop", "1", "-i", layer.source>>
    ELSE <<>>

\* The filter one layer adds to filter_complex: "[i:v]scale=...[v{i}]" for the
\* layer at position i of the list, counted from 0.
LayerFilters(layer, i, resolution) ==
    IF layer.type \in {"video", "image"}
    THEN <<[reads    |-> i,
            consumes |-> {},
            filter   |-> "scale=" \o resolution \o
                            (IF layer.type = "video" THEN ",setpts" ELSE ",trim"),
            produces |-> [label |-> "v", index |-> i]]>>
    ELSE <<>>

\* inputs and filter_complex after the loop over the first n layers.
RECURSIVE AfterLayers(_, _)
AfterLayers(project, n) ==
    IF n = 0 THEN [inputs |-> <<>>, filter_complex |-> <<>>]
    ELSE LET before == AfterLayers(project, n - 1)
             layer  == project.layers[n]
         IN  [inputs |-> before.inputs \o LayerInputs(layer),
              filter_complex |->
                  before.filter_complex
                      \o LayerFilters(layer, n - 1, project.settings.resolution)]

\* "[v0][v1]...overlay=shortest=1[out]": one label for every layer of the
\* list, whatever its type.
OverlayFilter(project) ==
    [reads    |-> -1,
     consumes |-> {[label |-> "v", index |-> i] :
                      i \in 0..(Len(project.layers) - 1)},
     filter   |-> "overlay=shortest=1",
     produces |-> [label |-> "out", index |-> 0]]

build_ffmpeg_command(project) ==
    LET loop   == AfterLayers(project, Len(project.layers))
        filter_complex ==
            IF loop.filter_complex # <<>>
            THEN Append(loop.filter_complex, OverlayFilter(project))
            ELSE loop.filter_complex
    IN  [base_command   |-> <<"ffmpeg", "-y">>,
         inputs         |-> loop.inputs,
         filter_complex |-> filter_complex,
         map            |-> [label |-> "out", index |-> 0]]

\* A call of build_ffmpeg_command.
BuildFfmpegCommand(project) ==
    /\ ~render.built
    /\ render' = [built |-> TRUE, layers |-> project.layers,
                  command |-> build_ffmpeg_command(project)]
    /\ UNCHANGED <<db, threads, completed, EnhancerVars>>

\* The command is returned.
Render_return ==
    /\ render.built
    /\ render' = NoRender
    /\ UNCHANGED <<db, threads, completed, EnhancerVars>>

RenderNext ==
    \/ \E project \in Projects : BuildFfmpegCommand(project)
    \/ Render_return

RenderSpec == Init /\ [][RenderNext]_vars

(***************************************************************************)
(* Properties                                                              *)
(***************************************************************************)
\* A finished call of one of the two enhance routes.
Enhancing == pc = "done" /\ call.op = "enhance_prompt"

\* The six category tags.
CategoryTags ==
    {"creative_writing", "code_generation", "business_communication",
     "academic_research", "data_analysis", "general"}

\* The priority order of the five keyword categories.
Priority ==
    <<"creative_writing", "code_generation", "business_communication",
      "academic_research", "data_analysis">>

\* The keywords the table of a file gives a category, whatever its place.
KeywordsOf(file, c) ==
    LET table == IF file = "Backend/app.py" THEN App_categories
                 ELSE Main_categories
    IN  UNION {{table[i].keywords[k] : k \in 1..Len(table[i].keywords)} :
                  i \in {j \in 1..Len(table) : table[j].category = c}}

\* Some keyword of category c is a substring of the lower-cased text.
HasKeyword(file, c, text) ==
    \E k \in KeywordsOf(file, c) : Contains(k, lower(text))

\* C1: detect_category returns the category of the first entry, in the order
\* creative_writing, code_generation, business_communication,
\* academic_research, data_analysis, that has a keyword occurring in the
\* lower-cased text; "write a python function" gives creative_writing.
C1_FirstMatchInPriorityOrder ==
    detected.called =>
        /\ \A i \in 1..Len(Priority) :
              ( /\ HasKeyword(call.file, Priority[i], detected.text)
                /\ \A j \in 1..(i - 1) :
                      ~HasKeyword(call.file, Priority[j], detected.text) )
              => detected.result = Priority[i]
        /\ detected.text = "write a python function"
              => detected.result = "creative_writing"

\* A text with a creative and a code keyword is classified creative_writing.
C1_Witness ==
    /\ detected.called
    /\ detected.text = "write a python function"
    /\ HasKeyword(call.file, "creative_writing", detected.text)
    /\ HasKeyword(call.file, "code_generation", detected.text)
    /\ detected.result = "creative_writing"

\* C2: detect_category returns a value for every text, the empty text
\* included, and returns "general" for a text that holds no keyword of any of
\* the five keyword categories.
C2_TotalWithGeneralFallback ==
    detected.called =>
        /\ detected.result \in CategoryTags
        /\ (\A i \in 1..Len(Priority) :
               ~HasKeyword(call.file, Priority[i], detected.text))
              => detected.result = "general"

\* The empty text is classified general.
C2_Witness ==
    /\ detected.called
    /\ detected.text = ""
    /\ detected.result = "general"

\* C3: the category of every response of enhance is one of the six tags,
\* with or without a category in the request.
C3_ResponseCategoryIsATag ==
    (Enhancing /\ response.status_code = 200)
        => response.category \in CategoryTags

\* C4: the quality score of calculate_metrics lies in 0..100 for every text,
\* the empty text and a text satisfying every bonus predicate included.
C4_ScoreWithinRange ==
    (metrics.called /\ ~metrics.raised)
        => metrics.result.quality_score \in 0..100

\* A text of more than 50 words holding every marker word was scored 100.
C4_Witness ==
    /\ metrics.called
    /\ ~metrics.raised
    /\ metrics.result.quality_score = 100
    /\ metrics.result.word_count > 50
    /\ \A w \in {"specific", "detailed", "format", "structure", "must", "should"} :
          Contains(w, lower(metrics.text))

\* C5 as claimed: the quality score of the empty text is 5.
C5_EmptyTextScoresFive ==
    (metrics.called /\ ~metrics.raised /\ metrics.text = "")
        => metrics.result.quality_score = 5

\* C5 as amended: the quality score of the empty text is 0; a text of at most
\* 50 words gets no length bonus and the empty text holds no marker word.
C5_EmptyTextScoresZero ==
    (metrics.called /\ ~metrics.raised /\ metrics.text = "")
        => /\ metrics.result.quality_score = 0
           /\ metrics.result.word_count = 0

\* The empty text was scored.
C5_Witness ==
    /\ metrics.called
    /\ ~metrics.raised
    /\ metrics.text = ""
    /\ metrics.result.quality_score = 0

\* The Gemini call of the finished call was made and gave no usable text.
GeminiFailed == pc = "done" /\ gemini.called /\ gemini.kind # "text"

\* The fallback text of the file for a prompt and a category.
FallbackText(file, prompt, c) ==
    IF file = "Backend/app.py"
    THEN App_fallback_enhancement(prompt, c)
    ELSE Main_fallback_enhancement(prompt, c)

\* C6: when the AI call fails (transport, HTTP status or quota error, or an
\* unusable reply) the request ends either in a 5xx response or in a success
\* response whose enhanced text is the locally generated fallback text of the
\* request's prompt and category.
C6_FailureEndsIn5xxOrFallback ==
    GeminiFailed =>
        \/ response.status_code \in 500..599
        \/ /\ response.status_code = 200
           /\ call.op = "enhance_prompt"
           /\ response.enhanced_prompt
                  = strip(FallbackText(call.file, request.prompt, category))

\* C7 as claimed: whenever the request supplies a category, the category
\* enhance uses and returns is the supplied value.
C7_SuppliedCategoryIsUsed ==
    (Enhancing /\ request.has_category)
        => /\ category = request.category
           /\ response.status_code = 200 => response.category = request.category

\* C7 as amended: a supplied category that is not the empty string is the
\* category used for template selection and returned, whatever the prompt
\* holds, and the classifier is not consulted; with no category, or the empty
\* string as category, the classifier's result for the prompt is used.
C7_NonEmptySuppliedCategoryIsUsed ==
    Enhancing =>
        IF request.has_category /\ request.category # ""
        THEN /\ category = request.category
             /\ ~detected.called
             /\ response.status_code = 200
                   => response.category = request.category
             /\ call.file = "Backend/app.py"
                   => template = App_get_enhancement_template(request.category)
        ELSE /\ detected.called
             /\ detected.text = request.prompt
             /\ category = detected.result
             /\ response.status_code = 200
                   => response.category = detected.result

\* A supplied category overrode the keywords of the prompt.
C7_Witness ==
    /\ Enhancing
    /\ request.has_category
    /\ request.category = "code_generation"
    /\ request.prompt = "Write a story about a dragon"
    /\ category = "code_generation"
    /\ response.status_code = 200
    /\ response.category = "code_generation"

\* The least index >= from at which part occurs in s, 0 when there is none.
IndexFrom(part, s, from) ==
    LET at == {i \in from..(Len(s) - Len(part) + 1) :
                  SubSeq(s, i, i + Len(part) - 1) = part}
    IN  IF at = {} THEN 0 ELSE CHOOSE i \in at : \A j \in at : i <= j

\* The parts occur in s one after the other, without overlap, from index from.
RECURSIVE InOrderFrom(_, _, _, _)
InOrderFrom(parts, k, s, from) ==
    IF k > Len(parts) THEN TRUE
    ELSE LET i == IndexFrom(parts[k], s, from)
         IN  i # 0 /\ InOrderFrom(parts, k + 1, s, i + Len(parts[k]))

\* The human-readable label of a category.
Label(c) == title(replace(c, "_", " "))

\* The opening and the closing directive of the composite of each file.
Preamble(file) ==
    IF file = "Backend/app.py"
    THEN "You are an expert prompt engineer."
    ELSE "Transform this basic prompt into a detailed, professional AI prompt:"

Directive(file) ==
    IF file = "Backend/app.py"
    THEN "Provide ONLY the enhanced professional prompt. No additional commentary or explanations."
    ELSE "Return ONLY the enhanced prompt, no additional text."

\* C8: the composite prompt of enhance holds, in this order: a preamble, the
\* original prompt in double quotes, the title-cased category label, the tone,
\* the include-examples flag, the target-length flag, the verbatim template of
\* the category, and last the directive to return only the enhanced prompt.
C8_CompositePartsInOrder ==
    Enhancing =>
        InOrderFrom(<<Preamble(call.file),
                      "\"" \o request.prompt \o "\"",
                      Label(category),
                      request.tone,
                      str(request.include_examples),
                      request.target_length,
                      App_get_enhancement_template(category),
                      Directive(call.file)>>,
                    1, enhancement_prompt, 1)

\* C9: with no category supplied, the composite prompt holds the title-cased
\* label of the category the classifier gave and the original prompt in double
\* quotes; "Write a story about a dragon" gives creative_writing and a
\* composite holding "Creative Writing".
C9_DetectedLabelInComposite ==
    (Enhancing /\ ~request.has_category) =>
        /\ Contains(Label(detected.result), enhancement_prompt)
        /\ Contains("\"" \o request.prompt \o "\"", enhancement_prompt)
        /\ request.prompt = "Write a story about a dragon"
              => /\ category = "creative_writing"
                 /\ Contains("Creative Writing", enhancement_prompt)

\* p and q are equal but for one place, where p holds lp and q holds lq.
DifferOnlyIn(p, lp, q, lq) ==
    \E i \in 0..Len(p) :
        /\ i + Len(lp) <= Len(p)
        /\ i + Len(lq) <= Len(q)
        /\ SubSeq(p, 1, i) = SubSeq(q, 1, i)
        /\ SubSeq(p, i + 1, i + Len(lp)) = lp
        /\ SubSeq(q, i + 1, i + Len(lq)) = lq
        /\ SubSeq(p, i + Len(lp) + 1, Len(p)) = SubSeq(q, i + Len(lq) + 1, Len(q))

\* C10: get_enhancement_template (src/Backend/app.py) gives every category
\* without a template of its own, "general" and an unknown tag alike, the one
\* generic template, and the composite prompts of "general" and of
\* "nonexistent_tag" differ only in the category label.
C10_GenericTemplateForUnknownCategory ==
    ( /\ pc = "done"
      /\ call.file = "Backend/app.py"
      /\ call.op \in {"enhance_prompt", "get_enhancement_template"}
      /\ category \notin CategoryTags \ {"general"} )
    => /\ template = App_default_template
       /\ template = App_get_enhancement_template("general")
       /\ template # ""
       /\ (call.op = "enhance_prompt" /\ category \in {"general", "nonexistent_tag"})
             => LET other == IF category = "general" THEN "nonexistent_tag"
                             ELSE "general"
                IN  DifferOnlyIn(enhancement_prompt, Label(category),
                                 App_enhancement_prompt(
                                     request, other,
                                     App_get_enhancement_template(other)),
                                 Label(other))

\* enhance composed the prompt of the unknown category "nonexistent_tag" with
\* the generic template.
C10_Witness ==
    /\ Enhancing
    /\ call.file = "Backend/app.py"
    /\ request.category = "nonexistent_tag"
    /\ category = "nonexistent_tag"
    /\ template = App_default_template
    /\ Contains("Nonexistent Tag", enhancement_prompt)

\* The enhance calls in flight or finished and not yet answered.
InFlight == {i \in Slots : slots[i].pc # "idle"}

Finished == {i \in Slots : slots[i].pc = "done"}

Alone(file, r, o) ==
    LET app  == file = "Backend/app.py"
        cat  == IF app THEN App_category(r) ELSE Main_category(r)
        got  == IF app THEN App_generate(o) ELSE Main_call_gemini_api(o)
        text == IF api_key /\ ~got.raised THEN got.text
                ELSE FallbackText(file, r.prompt, cat)
    IN  [category |-> cat,
         enhancement_prompt |-> Enhance_compose(file, r),
         quality_score |-> IF app THEN App_calculate_metrics(text).quality_score
                           ELSE Main_calculate_metrics(text).quality_score]

\* C12: under every interleaving of concurrent enhance calls on the shared
\* enhancer, the category, the composite prompt and the quality score of each
\* finished call are those the same request yields when it runs alone.
C12_InterleavingsAgreeWithRunningAlone ==
    \A i \in Finished :
        LET l == slots[i]
            a == Alone(l.file, l.request,
                       [kind |-> l.gemini.kind, text |-> l.gemini.text])
        IN  /\ l.category = a.category
            /\ l.response.category = a.category
            /\ l.enhancement_prompt = a.enhancement_prompt
            /\ l.response.quality_score = a.quality_score

\* Two calls of different categories were awaiting Gemini together, and one
\* of them has finished on the fallback, which names its category.
C12_Witness ==
    \E i, j \in Slots :
        /\ slots[i].pc = "done" /\ slots[j].pc = "awaiting"
        /\ slots[i].gemini.kind = "http_error"
        /\ slots[i].category # slots[j].category
        /\ slots[i].response.category = slots[i].category

\* A finished call of calculate_metrics.
Scored == metrics.called /\ ~metrics.raised

\* The marker words of the three marker tests of calculate_metrics.
MarkerWords(file) ==
    IF file = "Backend/app.py"
    THEN <<{"specific", "detailed"}, {"format", "structure"}, {"must", "should"}>>
    ELSE <<{"specific"}, {"format"}, {"must"}>>

\* The marker tests the text satisfies.
Satisfied(file, text) ==
    {k \in 1..3 : \E w \in MarkerWords(file)[k] : Contains(w, lower(text))}

\* C13 (as stated): the length term of the score is 25 for a text of 100 to
\* 500 words, 15 for a text of 50 to 99 or of 501 to 800 words and 5 for every
\* other text.  A text that holds no marker word scores its length term.
C13_LengthBands ==
    (Scored /\ Satisfied(call.file, metrics.text) = {})
        => LET words == metrics.result.word_count
           IN  metrics.result.quality_score =
                   IF words >= 100 /\ words <= 500 THEN 25
                   ELSE IF (words >= 50 /\ words <= 99)
                            \/ (words >= 501 /\ words <= 800) THEN 15
                   ELSE 5

\* C13 (amended): the length term of the score is 25 for a text of more than
\* 50 words and 0 for every other text.
C13_LengthTermIsTwentyFiveAboveFiftyWords ==
    (Scored /\ Satisfied(call.file, metrics.text) = {})
        => metrics.result.quality_score =
               IF metrics.result.word_count > 50 THEN 25 ELSE 0

\* A text of exactly 50 words and no marker word was scored 0, after a text
\* of 51 words and no marker word was scored 25.
C13_Witness ==
    /\ Scored
    /\ Satisfied(call.file, metrics.text) = {}
    /\ metrics.result.word_count = 50
    /\ metrics.result.quality_score = 0
    /\ earlier.called
    /\ Satisfied(earlier.file, earlier.text) = {}
    /\ earlier.result.word_count = 51
    /\ earlier.result.quality_score = 25

\* The length term of calculate_metrics.
LengthTerm(words) == IF words > 50 THEN 25 ELSE 0

HasMarker(word, text) == Contains(word, lower(text))

\* C14 (as stated): apart from the length term the score adds exactly five
\* bonuses, each at most once: 20 for a specificity marker, 20 for a
\* structure marker, 15 for a constraint marker, 10 for an example marker
\* and 10 for a tone marker.
C14_FiveMarkerBonuses ==
    Scored
        => LET text == metrics.text
               On(k) == k \in Satisfied(call.file, text)
           IN  metrics.result.quality_score =
                   min(LengthTerm(metrics.result.word_count)
                         + (IF On(1) THEN 20 ELSE 0)
                         + (IF On(2) THEN 20 ELSE 0)
                         + (IF On(3) THEN 15 ELSE 0)
                         + (IF HasMarker("example", text) THEN 10 ELSE 0)
                         + (IF HasMarker("tone", text) THEN 10 ELSE 0),
                       100)

\* C14 (amended): apart from the length term the score adds exactly three
\* bonuses of 25 points, each at most once: for a specificity marker, for a
\* structure marker and for a constraint marker; an example marker and a tone
\* marker add nothing.
C14_ThreeMarkerBonusesOfTwentyFive ==
    Scored
        => metrics.result.quality_score =
               min(LengthTerm(metrics.result.word_count)
                     + 25 * Cardinality(Satisfied(call.file, metrics.text)),
                   100)

\* A text with a specificity, an example and a tone marker was scored 25.
C14_Witness ==
    /\ Scored
    /\ Satisfied(call.file, metrics.text) = {1}
    /\ HasMarker("example", metrics.text)
    /\ HasMarker("tone", metrics.text)
    /\ metrics.result.quality_score = 25

\* The bonus predicates a text satisfies: the length test and the marker tests.
Predicates(file, text) ==
    Satisfied(file, text) \cup (IF split_len(text) > 50 THEN {0} ELSE {})

\* C15: the score depends only on the set of bonus predicates the text
\* satisfies, and a text that satisfies every predicate another text
\* satisfies scores at least as much as that text.
C15_ScoreIsMonotoneInThePredicates ==
    (Scored /\ earlier.called /\ earlier.file = call.file)
        => LET before == Predicates(earlier.file, earlier.text)
               now    == Predicates(call.file, metrics.text)
           IN  /\ before \subseteq now
                    => earlier.result.quality_score <= metrics.result.quality_score
               /\ before = now
                    => earlier.result.quality_score = metrics.result.quality_score

\* Two different texts of the same predicates were scored, and so were two
\* texts of which the second satisfies strictly more predicates.
C15_Witness ==
    /\ Scored /\ earlier.called /\ earlier.file = call.file
    /\ earlier.text # metrics.text
    /\ earlier.result.word_count # metrics.result.word_count
    /\ Predicates(earlier.file, earlier.text) = Predicates(call.file, metrics.text)
    /\ Predicates(call.file, metrics.text) # {}
    /\ earlier.result.quality_score = metrics.result.quality_score

UpperForm(c) == IF c = "ß" THEN "SS" ELSE UpperChar(c)

\* str.upper().
RECURSIVE upper(_)
upper(s) ==
    IF Len(s) = 0 THEN ""
    ELSE IF Len(s) = 1 THEN UpperForm(s)
    ELSE LET h == Len(s) \div 2
         IN  upper(SubSeq(s, 1, h)) \o upper(SubSeq(s, h + 1, Len(s)))

DetectIn(file, text) ==
    IF file = "Backend/app.py"
    THEN App_detect_category(text)
    ELSE Main_detect_category(text)

\* C16: classification ignores case.  detect_category returns for the
\* all-upper-case form and for the all-lower-case form of a text the
\* category it returns for the text.
C16_ClassificationIgnoresCase ==
    (call.op = "detect_category" /\ detected.called)
        => /\ DetectIn(call.file, upper(detected.text)) = detected.result
           /\ DetectIn(call.file, lower(detected.text)) = detected.result

\* C18: in a success response of src/Backend/app.py the metadata entry
\* enhancement_method is "fallback" exactly when the enhanced text was set by
\* _fallback_enhancement (no API key, or the Gemini call failed), and
\* "gemini_api" exactly when the enhanced text is the text Gemini returned.
C18_MethodNamesTheBranchTaken ==
    (Enhancing /\ call.file = "Backend/app.py" /\ response.status_code = 200)
        => /\ response.metadata.enhancement_method = "fallback"
                <=> enhanced.by = "fallback"
           /\ response.metadata.enhancement_method = "gemini_api"
                <=> enhanced.by = "gemini"

\* C20: in src/Backend/main.py the enhanced prompt of a success response is
\* the text Gemini returned or the fallback text of the request; an error
\* message is never the enhanced prompt of a success response, also when the
\* reply of Gemini holds no candidates.
C20_SuccessCarriesAITextOrFallback ==
    (Enhancing /\ call.file = "Backend/main.py" /\ response.status_code = 200)
        => \/ /\ gemini.called /\ gemini.kind = "text"
              /\ response.enhanced_prompt = strip(gemini.text)
           \/ response.enhanced_prompt =
                  strip(FallbackText(call.file, request.prompt, category))

\* C19: enhance_batch takes the prompts one at a time in the order of the
\* list and holds one result per prompt taken, in that order; a prompt whose
\* processing raises gets an entry of status "error", every other prompt an
\* entry of status "success", and the prompts after it are still processed:
\* the response holds a result for every prompt, and its count is the number
\* of prompts and the sum of successful and failed.
C19_BatchHoldsOneResultPerPromptInOrder ==
    LET n == Len(batch.results)
    IN  /\ n <= Len(batch.prompts)
        /\ Len(batch.raised) = n
        /\ \A i \in 1..n :
              /\ batch.results[i].original_prompt = batch.prompts[i]
              /\ batch.results[i].status =
                     IF batch.raised[i] THEN "error" ELSE "success"
        /\ (batch.pc = "running") => n < Len(batch.prompts)
        /\ (batch.pc = "done")
              => /\ n = Len(batch.prompts)
                 /\ batch.response.results = batch.results
                 /\ batch.response.count = n
                 /\ batch.response.count
                        = batch.response.successful + batch.response.failed
                 /\ batch.response.failed
                        = Cardinality({i \in 1..n : batch.raised[i]})

\* A batch has returned whose first prompt raised and whose second did not.
C19_Witness ==
    /\ batch.pc = "done"
    /\ Len(batch.prompts) = 2
    /\ batch.raised = <<TRUE, FALSE>>
    /\ batch.results[1].status = "error"
    /\ batch.results[2].status = "success"
    /\ batch.response.count = 2
    /\ batch.response.successful = 1
    /\ batch.response.failed = 1

\* C21: in every success response of enhance the metrics describe the
\* enhanced_prompt that is returned: word_count is the number of whitespace
\* separated words of the returned enhanced_prompt and token_estimate is its
\* length in characters divided by 4, rounded down.
C21_MetricsDescribeTheReturnedPrompt ==
    (Enhancing /\ response.status_code = 200)
        => /\ response.word_count = split_len(response.enhanced_prompt)
           /\ response.token_estimate = Len(response.enhanced_prompt) \div 4

\* The project documents stored under the user.
ProjectsOf(u) == {i \in 1..Len(db.projects) : db.projects[i].user = u}

\* No create_project call is between its two writes.
NoCreateInFlight == \A t \in Threads : threads[t].pc # "counting"

\* C22: after any sequence of create_project calls for a user, calls that
\* raise partway and calls interleaved with one another included, the
\* projectsCount of the user is the number of project documents stored under
\* the user.
C22_ProjectsCountIsTheNumberOfProjects ==
    NoCreateInFlight
        => \A u \in Users :
               db.users[u].projectsCount = Cardinality(ProjectsOf(u))

\* C23: the version of a project is 1 at create_project and grows by exactly
\* 1 with each completed update_project on it, whatever the update data
\* holds and however the updates interleave: after n completed updates it is
\* 1 + n, and no step lowers it.
C23_VersionCountsTheUpdates ==
    [][/\ \A i \in 1..Len(db.projects) :
             /\ db.projects[i].version = 1 + completed[i]
             /\ db'.projects[i].version >= db.projects[i].version
       /\ \A i \in 1..Len(db'.projects) :
             db'.projects[i].version = 1 + completed'[i]]_vars

\* Two updates of one project have completed in two requests that are both
\* still in flight, and the version of the project is 3.
C23_Witness ==
    /\ Len(db.projects) >= 1
    /\ completed[1] = 2
    /\ db.projects[1].version = 3
    /\ \A t \in Threads :
          /\ threads[t].op = "update_project"
          /\ threads[t].project_id = 1
          /\ threads[t].response.status_code = 200

\* The number of inputs the command adds: one for every "-i".
NumInputs(command) ==
    Cardinality({k \in 1..Len(command.inputs) : command.inputs[k] = "-i"})

\* The labels the filters of the command produce.
Produced(command) ==
    {command.filter_complex[k].produces : k \in 1..Len(command.filter_complex)}

\* C24: the command built for a project, whose list of layers may be empty
\* and may hold layers of any type in any order, is well formed: every input
\* reference [i:v] names an input the command adds at index i, every label
\* [v{i}] the overlay filter consumes is produced by a filter of the command,
\* and the label [out] given to -map is produced by a filter of the command.
C24_CommandIsWellFormed ==
    render.built
        => LET command == render.command
               filters == command.filter_complex
           IN  /\ \A k \in 1..Len(filters) :
                     /\ filters[k].reads >= 0
                            => filters[k].reads < NumInputs(command)
                     /\ filters[k].consumes \subseteq Produced(command)
               /\ command.map \in Produced(command)
====
